---- MODULE Spec2Model ----
(***************************************************************************)
(* Model of Fakenews.py: the verdict classifier (predict_text_authenticity *)
(* over query_hf_model), the two evidence adapters                         *)
(* (query_google_factcheck, query_newsapi) and the "Verify News" run of    *)
(* main, which merges their citations and guarantees a non-empty list.     *)
(*                                                                         *)
(* Conventions.  A Python str that the code inspects character by          *)
(* character (the user's text, a label that is lower-cased) is a sequence  *)
(* of one-character strings.  A URL is a sequence of tokens so that the    *)
(* Google News URL is the base token followed by the query characters.     *)
(* A float score is an integer number of hundredths.  A JSON value is a    *)
(* record whose field t names its Python type; a dict carries the set of   *)
(* its keys.  An uncaught Python exception is recorded by its class name.  *)
(***************************************************************************)
EXTENDS Integers, Sequences, FiniteSets, TLC

VARIABLES
    keys,           \* HF_API_TOKEN, GOOGLE_FACTCHECK_API_KEY, NEWS_API_KEY
    pc,             \* position of the run inside main / the classifier
    user_input,     \* st.text_area value
    hf_response,    \* what the classification oracle answered (classifier runs)
    prediction,     \* label returned by predict_text_authenticity
    score,          \* score returned by predict_text_authenticity
    fc_response,    \* what the fact-check oracle answered
    fact_results,   \* return value of query_google_factcheck
    news_response,  \* what the news oracle answered
    news_results,   \* return value of query_newsapi
    sources,        \* the list `sources` of main
    rendered,       \* the list handed to render_prediction (<<>> before)
    raised,         \* class of the uncaught exception, "none" if none
    called,         \* oracles requested so far in this run
    st_error,       \* st.error was shown
    added           \* how many citations each step appended

vars == <<keys, pc, user_input, hf_response, prediction, score, fc_response,
          fact_results, news_response, news_results, sources, rendered,
          raised, called, st_error, added>>

----------------------------------------------------------------------------
(* Bounds of the model *)

MaxTextLen == 2

MaxClaims == 4

MaxArticles == 4

(* Constants of the program *)

Threshold == 50

FactCheckLimit == 3

ArticleLimit == 3

ResultLimit == 3

HTTP_OK == 200

----------------------------------------------------------------------------
(* Small helpers *)

Min(a, b) == IF a <= b THEN a ELSE b

Chars == {"a", " "}

Texts == UNION {[1..n -> Chars] : n \in 0..MaxTextLen}

(* Python list slice s[:n]; SliceAll is the slice that keeps everything *)
SliceAll(s, n) == s

Slice(s, n) == SubSeq(s, 1, Min(Len(s), n))

(* str.replace(' ', '+') *)
ReplaceSpaces(s) == [i \in 1..Len(s) |-> IF s[i] = " " THEN "+" ELSE s[i]]

(* f"https://news.google.com/search?q={text.replace(' ', '+')}";         *)
(* GoogleNewsUrlRaw is the URL built from the text as typed               *)
GoogleNewsUrlRaw(text) == <<"https://news.google.com/search?q=">> \o text

GoogleNewsUrl(text) == <<"https://news.google.com/search?q=">> \o ReplaceSpaces(text)

UpperAlpha == <<"A","B","C","D","E","F","G","H","I","J","K","L","M",
                "N","O","P","Q","R","S","T","U","V","W","X","Y","Z">>

LowerAlpha == <<"a","b","c","d","e","f","g","h","i","j","k","l","m",
                "n","o","p","q","r","s","t","u","v","w","x","y","z">>

LowerChar(c) ==
    IF \E i \in 1..26 : UpperAlpha[i] = c
    THEN LowerAlpha[CHOOSE i \in 1..26 : UpperAlpha[i] = c]
    ELSE c

(* str.lower(); LowerId leaves the case alone *)
LowerId(s) == s

Lower(s) == [i \in 1..Len(s) |-> LowerChar(s[i])]

(* needle in hay, for two str *)
IsSubstring(needle, hay) ==
    \E i \in 1..(Len(hay) - Len(needle) + 1) :
        SubSeq(hay, i, i + Len(needle) - 1) = needle

----------------------------------------------------------------------------
(* The classification oracle and the verdict classifier *)

NoJson == [t |-> "none", chars |-> <<>>, elems |-> {}, keys |-> {},
           labels |-> <<>>, scores |-> <<>>]

JsonNull == [NoJson EXCEPT !.t = "null"]

JsonNumber == [NoJson EXCEPT !.t = "number"]

JsonStr(cs) == [NoJson EXCEPT !.t = "str", !.chars = cs]

JsonList(es) == [NoJson EXCEPT !.t = "list", !.elems = es]

HFDict(ks, ls, ss) == [NoJson EXCEPT !.t = "dict", !.keys = ks, !.labels = ls, !.scores = ss]

L_real == <<"r","e","a","l">>

L_fake == <<"f","a","k","e">>

L_REAL == <<"R","E","A","L">>

L_Fake == <<"F","a","k","e">>

L_neutral == <<"n","e","u","t","r","a","l">>

L_UNKNOWN == <<"U","N","K","N","O","W","N">>

ErrorChars == <<"e","r","r","o","r">>

LabelLists ==
    {<<>>, <<L_real, L_fake>>, <<L_fake, L_real>>}
    \cup {<<l>> : l \in {L_real, L_fake, L_REAL, L_Fake, L_neutral, L_UNKNOWN}}

ScoreLists ==
    {<<>>, <<90, 10>>, <<10, 90>>, <<49>>, <<50>>, <<51>>}

HFDicts ==
    {HFDict(ks, ls, ss) :
        ks \in SUBSET {"error", "labels", "scores"}, ls \in LabelLists, ss \in ScoreLists}

(* A dict lists a key's value only when it holds the key *)
HFBodies ==
    {b \in HFDicts : /\ ("labels" \notin b.keys => b.labels = <<>>)
                      /\ ("scores" \notin b.keys => b.scores = <<>>)}
    \cup {JsonNull, JsonNumber, JsonList({}), JsonList({"error"}),
          JsonStr(<<"o","k">>), JsonStr(<<"a","n"," ">> \o ErrorChars)}

(* net: requests.post returns or raises; status: the HTTP status; parse:  *)
(* whether response.json() can decode the body                            *)
HFResponses ==
    {[net |-> "raise", status |-> 0, parse |-> "none", body |-> NoJson]}
    \cup {[net |-> "ok", status |-> 503, parse |-> "none", body |-> NoJson]}
    \cup {[net |-> "ok", status |-> HTTP_OK, parse |-> "raise", body |-> NoJson]}
    \cup {[net |-> "ok", status |-> HTTP_OK, parse |-> "ok", body |-> b] : b \in HFBodies}

NoResponse == [net |-> "none", status |-> 0, parse |-> "none", body |-> NoJson]

(* Python's `key in v`: "yes", "no", or the exception it raises *)
In(key, keyChars, v) ==
    CASE v.t = "dict" -> IF key \in v.keys THEN "yes" ELSE "no"
      [] v.t = "list" -> IF key \in v.elems THEN "yes" ELSE "no"
      [] v.t = "str"  -> IF IsSubstring(keyChars, v.chars) THEN "yes" ELSE "no"
      [] OTHER        -> "TypeError"

(* query_hf_model: [exc, value] *)
query_hf_model(resp) ==
    IF resp.net = "raise" THEN [exc |-> "ConnectionError", value |-> NoJson]
    ELSE IF resp.status # HTTP_OK THEN [exc |-> "none", value |-> HFDict({"error"}, <<>>, <<>>)]
    ELSE IF resp.parse = "raise" THEN [exc |-> "JSONDecodeError", value |-> NoJson]
    ELSE [exc |-> "none", value |-> resp.body]

Verdict(l, s) == [exc |-> "none", label |-> l, score |-> s]

Raise(e) == [exc |-> e, label |-> <<>>, score |-> 0]

(* "real" if score >= 0.5 else "fake"; FromScoreStrict excludes 0.5 *)
FromScoreStrict(s) == IF s > Threshold THEN L_real ELSE L_fake

FromScore(s) == IF s >= Threshold THEN L_real ELSE L_fake

(* lines 69-74, for a dict that holds "labels" *)
Classify(result) ==
    IF result.labels = <<>> THEN Raise("IndexError")
    ELSE IF "scores" \notin result.keys THEN Raise("KeyError")
    ELSE IF result.scores = <<>> THEN Raise("IndexError")
    ELSE LET label == Lower(result.labels[1])
             s == result.scores[1]
         IN  IF label \notin {L_real, L_fake}
             THEN Verdict(FromScore(s), s)
             ELSE Verdict(label, s)

predict_text_authenticity(resp) ==
    LET q == query_hf_model(resp)
        result == q.value
        err == In("error", ErrorChars, result)
    IN  IF q.exc # "none" THEN Raise(q.exc)
        ELSE IF err = "TypeError" THEN Raise("TypeError")
        ELSE IF err = "yes" THEN Verdict(L_fake, 0)
        ELSE IF result.t = "dict" /\ "labels" \in result.keys THEN Classify(result)
        ELSE Verdict(L_fake, 0)

----------------------------------------------------------------------------
(* Citations *)

Citation(title, url, source) == <<title, url, source>>

(* dict.get(key, default) on a record that carries its key set *)
Get(d, key, default) == IF key \in d.keys THEN d[key] ELSE default

(* ("Search on Google News", fallback_url, "Google News") *)
Placeholder(text) == Citation("Search on Google News", GoogleNewsUrl(text), "Google News")

----------------------------------------------------------------------------
(* The fact-check oracle, query_google_factcheck and the fact-check loop *)

FCDefects == {"none", "noText", "noReview", "emptyReview", "noUrl", "noPublisher", "noName"}

FCPublisher(i, d) ==
    [keys |-> IF d = "noName" THEN {} ELSE {"name"}, name |-> "publisher" \o ToString(i)]

FCReview(i, d) ==
    [keys |-> {"url", "publisher"} \ ((IF d = "noUrl" THEN {"url"} ELSE {})
                                      \cup (IF d = "noPublisher" THEN {"publisher"} ELSE {})),
     url |-> <<"https://factcheck.example/", ToString(i)>>,
     publisher |-> FCPublisher(i, d)]

(* the i-th claim of a response, with defect d *)
FCClaim(i, d) ==
    [keys |-> {"text", "claimReview"} \ ((IF d = "noText" THEN {"text"} ELSE {})
                                         \cup (IF d = "noReview" THEN {"claimReview"} ELSE {})),
     text |-> "claim" \o ToString(i),
     claimReview |-> IF d \in {"noReview", "emptyReview"} THEN <<>> ELSE <<FCReview(i, d)>>]

(* claim lists of every length up to MaxClaims, at most one claim defective *)
FCClaimLists ==
    {[i \in 1..n |-> FCClaim(i, IF i = p THEN d ELSE "none")] :
        n \in 0..MaxClaims, p \in 1..MaxClaims, d \in FCDefects}

NoFCJson == [t |-> "none", chars |-> <<>>, elems |-> {}, keys |-> {},
             claimsT |-> "none", claims |-> <<>>]

ClaimsChars == <<"c","l","a","i","m","s">>

FCBodies ==
    {[NoFCJson EXCEPT !.t = "dict", !.keys = {"claims"}, !.claimsT = "list", !.claims = cl] :
        cl \in FCClaimLists}
    \cup {[NoFCJson EXCEPT !.t = "dict"],
          [NoFCJson EXCEPT !.t = "dict", !.keys = {"error"}],
          [NoFCJson EXCEPT !.t = "dict", !.keys = {"claims"}, !.claimsT = "null"],
          [NoFCJson EXCEPT !.t = "null"],
          [NoFCJson EXCEPT !.t = "list"],
          [NoFCJson EXCEPT !.t = "list", !.elems = {"claims"}],
          [NoFCJson EXCEPT !.t = "str", !.chars = <<"n","o">>]}

FCResponses ==
    {[net |-> "raise", parse |-> "none", body |-> NoFCJson],
     [net |-> "ok", parse |-> "raise", body |-> NoFCJson]}
    \cup {[net |-> "ok", parse |-> "ok", body |-> b] : b \in FCBodies}

NoFCResponse == [net |-> "none", parse |-> "none", body |-> NoFCJson]

(* query_google_factcheck: no try/except around the request or the decode *)
query_google_factcheck(resp) ==
    IF resp.net = "raise" THEN [exc |-> "ConnectionError", value |-> NoFCJson]
    ELSE IF resp.parse = "raise" THEN [exc |-> "JSONDecodeError", value |-> NoFCJson]
    ELSE [exc |-> "none", value |-> resp.body]

(* the exception claim["claimReview"][0] raises, "none" if none *)
ReviewError(claim) ==
    IF "claimReview" \notin claim.keys THEN "KeyError"
    ELSE IF claim.claimReview = <<>> THEN "IndexError"
    ELSE "none"

(* lines 140-144 for a claim whose first review exists *)
FactCheckCitation(claim) ==
    LET review == claim.claimReview[1]
    IN  Citation(Get(claim, "text", "N/A"),
                 Get(review, "url", <<"#">>),
                 Get(Get(review, "publisher", [keys |-> {}]), "name", "Unknown"))

(* the loop of lines 139-145 over a list: the citations appended before   *)
(* the first exception, and that exception                                *)
FactCheckLoop(claims) ==
    LET first == Slice(claims, FactCheckLimit)
        bad == {i \in DOMAIN first : ReviewError(first[i]) # "none"}
        stop == IF bad = {} THEN Len(first) + 1
                ELSE CHOOSE i \in bad : \A j \in bad : i <= j
    IN  [exc |-> IF bad = {} THEN "none" ELSE ReviewError(first[stop]),
         cites |-> [i \in 1..(stop - 1) |-> FactCheckCitation(first[i])]]

(* lines 138-145 on the value query_google_factcheck returned *)
CollectFactCheck(fr) ==
    LET has == In("claims", ClaimsChars, fr)
    IN  IF has = "TypeError" THEN [exc |-> "TypeError", cites |-> <<>>]
        ELSE IF has = "no" THEN [exc |-> "none", cites |-> <<>>]
        ELSE IF fr.t # "dict" \/ fr.claimsT # "list" THEN [exc |-> "TypeError", cites |-> <<>>]
        ELSE FactCheckLoop(fr.claims)

----------------------------------------------------------------------------
(* The news oracle, query_newsapi and the news loops *)

NewsDefects == {"none", "noTitle", "noUrl", "noSource", "nullSource", "noName"}

NewsSource(i, d) ==
    [t |-> IF d = "nullSource" THEN "null" ELSE "dict",
     keys |-> IF d \in {"noName", "nullSource"} THEN {} ELSE {"name"},
     name |-> "outlet" \o ToString(i)]

(* the i-th article of a response, with defect d *)
Article(i, d) ==
    [keys |-> {"title", "url", "source"} \ (CASE d = "noTitle" -> {"title"}
                                              [] d = "noUrl" -> {"url"}
                                              [] d = "noSource" -> {"source"}
                                              [] OTHER -> {}),
     title |-> "headline" \o ToString(i),
     url |-> <<"https://news.example/", ToString(i)>>,
     source |-> NewsSource(i, d)]

(* article lists of every length up to MaxArticles, at most one defective *)
ArticleLists ==
    {[i \in 1..n |-> Article(i, IF i = p THEN d ELSE "none")] :
        n \in 0..MaxArticles, p \in 1..MaxArticles, d \in NewsDefects}

NoNewsJson == [t |-> "none", chars |-> <<>>, elems |-> {}, keys |-> {},
               articlesT |-> "none", articles |-> <<>>]

ArticlesChars == <<"a","r","t","i","c","l","e","s">>

NewsBodies ==
    {[NoNewsJson EXCEPT !.t = "dict", !.keys = {"status", "articles"},
                        !.articlesT = "list", !.articles = al] : al \in ArticleLists}
    \cup {[NoNewsJson EXCEPT !.t = "dict"],
          [NoNewsJson EXCEPT !.t = "dict", !.keys = {"status", "message"}],
          [NoNewsJson EXCEPT !.t = "dict", !.keys = {"articles"}, !.articlesT = "null"],
          [NoNewsJson EXCEPT !.t = "null"],
          [NoNewsJson EXCEPT !.t = "list"],
          [NoNewsJson EXCEPT !.t = "list", !.elems = {"articles"}],
          [NoNewsJson EXCEPT !.t = "str", !.chars = <<"n","o">>]}

NewsResponses ==
    {[net |-> "raise", parse |-> "none", body |-> NoNewsJson],
     [net |-> "ok", parse |-> "raise", body |-> NoNewsJson]}
    \cup {[net |-> "ok", parse |-> "ok", body |-> b] : b \in NewsBodies}

NoNewsResponse == [net |-> "none", parse |-> "none", body |-> NoNewsJson]

(* the dicts query_newsapi returns *)
NoNewsResult == [keys |-> {}, articles |-> <<>>, results |-> <<>>]

(* {"error": str(e)} *)
NewsError == [NoNewsResult EXCEPT !.keys = {"error"}]

(* the response itself, with its non-empty article list *)
NewsData(data) == [NoNewsResult EXCEPT !.keys = data.keys, !.articles = data.articles]

(* {"results": [{"title": "Google News Search", "url": alt_url, "source": "Google News"}]} *)
NewsFallback(text) ==
    [NoNewsResult EXCEPT
        !.keys = {"results"},
        !.results = <<[keys |-> {"title", "url", "source"},
                       title |-> "Google News Search",
                       url |-> GoogleNewsUrl(text),
                       source |-> "Google News"]>>]

(* query_newsapi: every exception inside the try block becomes NewsError *)
query_newsapi(text, resp) ==
    IF resp.net = "raise" \/ resp.parse = "raise" THEN NewsError
    ELSE LET data == resp.body
             has == In("articles", ArticlesChars, data)
         IN  IF has = "TypeError" THEN NewsError
             ELSE IF has = "no" THEN NewsFallback(text)
             ELSE IF data.t # "dict" \/ data.articlesT # "list" THEN NewsError
             ELSE IF Len(data.articles) > 0 THEN NewsData(data)
             ELSE NewsFallback(text)

(* the exception article["source"].get raises, "none" if none *)
SourceError(article) ==
    IF "source" \notin article.keys THEN "KeyError"
    ELSE IF article.source.t # "dict" THEN "AttributeError"
    ELSE "none"

(* lines 151-154 for an article whose source is a dict *)
ArticleCitation(article) ==
    Citation(Get(article, "title", "N/A"),
             Get(article, "url", <<"#">>),
             Get(article.source, "name", "Unknown"))

(* lines 158-161 *)
ResultCitation(res) ==
    Citation(Get(res, "title", "N/A"), Get(res, "url", <<"#">>), Get(res, "source", "Unknown"))

(* the loop of lines 150-155 *)
ArticleLoop(articles) ==
    LET first == Slice(articles, ArticleLimit)
        bad == {i \in DOMAIN first : SourceError(first[i]) # "none"}
        stop == IF bad = {} THEN Len(first) + 1
                ELSE CHOOSE i \in bad : \A j \in bad : i <= j
    IN  [exc |-> IF bad = {} THEN "none" ELSE SourceError(first[stop]),
         cites |-> [i \in 1..(stop - 1) |-> ArticleCitation(first[i])]]

(* the loop of lines 157-162 *)
ResultLoop(results) ==
    LET first == Slice(results, ResultLimit)
    IN  [exc |-> "none", cites |-> [i \in DOMAIN first |-> ResultCitation(first[i])]]

(* lines 149-162 on the value query_newsapi returned *)
CollectNews(nr) ==
    IF "articles" \in nr.keys THEN ArticleLoop(nr.articles)
    ELSE IF "results" \in nr.keys THEN ResultLoop(nr.results)
    ELSE [exc |-> "none", cites |-> <<>>]

(* lines 165-167: `if not sources: sources.append(placeholder)`;        *)
(* GuaranteeNever omits the append, GuaranteeAlways omits the test       *)
GuaranteeNever(srcs, text) == srcs

GuaranteeAlways(srcs, text) == Append(srcs, Placeholder(text))

Guarantee(srcs, text) == IF srcs = <<>> THEN <<Placeholder(text)>> ELSE srcs

----------------------------------------------------------------------------
(* Configuration *)

KeyNone == [isNone |-> TRUE, str |-> <<>>]

KeyEmpty == [isNone |-> FALSE, str |-> <<>>]

KeySecret == [isNone |-> FALSE, str |-> <<"k">>]

KeyNames == {"HF_API_TOKEN", "GOOGLE_FACTCHECK_API_KEY", "NEWS_API_KEY"}

(* Python's `not v` for None or a str *)
Not(v) == v.isNone \/ v.str = <<>>

(* line 126; KeysMissingTwo leaves the news key out of the test *)
KeysMissingTwo(ks) == Not(ks["HF_API_TOKEN"]) \/ Not(ks["GOOGLE_FACTCHECK_API_KEY"])

KeysMissing(ks) ==
    Not(ks["HF_API_TOKEN"]) \/ Not(ks["GOOGLE_FACTCHECK_API_KEY"]) \/ Not(ks["NEWS_API_KEY"])

AllKeys == [k \in KeyNames |-> KeySecret]

----------------------------------------------------------------------------
(* One "Verify News" run of main *)

NoAdded == [fc |-> 0, news |-> 0, placeholder |-> 0]

(* the state a fresh script run starts from; the keys are read at import *)
Fresh ==
    /\ pc = "idle"
    /\ user_input = <<>>
    /\ hf_response = NoResponse
    /\ prediction = <<>>
    /\ score = 0
    /\ fc_response = NoFCResponse
    /\ fact_results = NoFCJson
    /\ news_response = NoNewsResponse
    /\ news_results = NoNewsResult
    /\ sources = <<>>
    /\ rendered = <<>>
    /\ raised = "none"
    /\ called = {}
    /\ st_error = FALSE
    /\ added = NoAdded

Init ==
    /\ keys \in [KeyNames -> {KeyNone, KeyEmpty, KeySecret}]
    /\ Fresh

(* lines 123-128: the button is pressed with some text in the text area *)
PressVerify ==
    /\ pc = "idle"
    /\ \E text \in Texts : user_input' = text
    /\ IF KeysMissing(keys)
       THEN st_error' = TRUE /\ pc' = "stopped"
       ELSE st_error' = FALSE /\ pc' = "predict"
    /\ UNCHANGED <<keys, hf_response, prediction, score, fc_response, fact_results,
                   news_response, news_results, sources, rendered, raised, called, added>>

(* line 131; `result` is local to predict_text_authenticity *)
Predict ==
    /\ pc = "predict"
    /\ \E resp \in HFResponses :
         LET out == predict_text_authenticity(resp)
         IN  /\ prediction' = out.label
             /\ score' = out.score
             /\ raised' = out.exc
             /\ pc' = IF out.exc = "none" THEN "factcheck" ELSE "crashed"
    /\ called' = called \cup {"hf"}
    /\ UNCHANGED <<keys, user_input, hf_response, fc_response, fact_results, news_response,
                   news_results, sources, rendered, st_error, added>>

(* lines 134-145 *)
FactCheck ==
    /\ pc = "factcheck"
    /\ \E resp \in FCResponses :
         LET q == query_google_factcheck(resp)
             out == IF q.exc # "none" THEN [exc |-> q.exc, cites |-> <<>>]
                    ELSE CollectFactCheck(q.value)
         IN  /\ fc_response' = resp
             /\ fact_results' = q.value
             /\ sources' = out.cites
             /\ added' = [added EXCEPT !.fc = Len(out.cites)]
             /\ raised' = out.exc
             /\ pc' = IF out.exc = "none" THEN "news" ELSE "crashed"
    /\ called' = called \cup {"fc"}
    /\ UNCHANGED <<keys, user_input, hf_response, prediction, score, news_response,
                   news_results, rendered, st_error>>

(* lines 148-170: the news step, the guarantee and the call of render_prediction *)
NewsAndRender ==
    /\ pc = "news"
    /\ \E resp \in NewsResponses :
         LET nr == query_newsapi(user_input, resp)
             out == CollectNews(nr)
             merged == sources \o out.cites
             final == Guarantee(merged, user_input)
         IN  /\ news_response' = resp
             /\ news_results' = nr
             /\ raised' = out.exc
             /\ IF out.exc # "none"
                THEN /\ sources' = merged
                     /\ added' = [added EXCEPT !.news = Len(out.cites)]
                     /\ rendered' = rendered
                     /\ pc' = "crashed"
                ELSE /\ sources' = final
                     /\ added' = [added EXCEPT !.news = Len(out.cites),
                                               !.placeholder = Len(final) - Len(merged)]
                     /\ rendered' = final
                     /\ pc' = "rendered"
    /\ called' = called \cup {"news"}
    /\ UNCHANGED <<keys, user_input, hf_response, prediction, score, fc_response,
                   fact_results, st_error>>

(* the next interaction reruns the script; nothing of the run is kept *)
Rerun ==
    /\ pc \in {"stopped", "crashed", "rendered"}
    /\ pc' = "idle"
    /\ user_input' = <<>>
    /\ prediction' = <<>>
    /\ score' = 0
    /\ fc_response' = NoFCResponse
    /\ fact_results' = NoFCJson
    /\ news_response' = NoNewsResponse
    /\ news_results' = NoNewsResult
    /\ sources' = <<>>
    /\ rendered' = <<>>
    /\ raised' = "none"
    /\ called' = {}
    /\ st_error' = FALSE
    /\ added' = NoAdded
    /\ UNCHANGED <<keys, hf_response>>

Next == PressVerify \/ Predict \/ FactCheck \/ NewsAndRender \/ Rerun

Spec == Init /\ [][Next]_vars

----------------------------------------------------------------------------
(* The classifier alone, on every answer of the classification oracle *)

InitClassifier ==
    /\ keys = AllKeys
    /\ pc = "classify"
    /\ user_input = <<>>
    /\ hf_response \in HFResponses
    /\ prediction = <<>>
    /\ score = 0
    /\ fc_response = NoFCResponse
    /\ fact_results = NoFCJson
    /\ news_response = NoNewsResponse
    /\ news_results = NoNewsResult
    /\ sources = <<>>
    /\ rendered = <<>>
    /\ raised = "none"
    /\ called = {}
    /\ st_error = FALSE
    /\ added = NoAdded

(* predict_text_authenticity applied to the recorded answer *)
RunClassifier ==
    /\ pc = "classify"
    /\ LET out == predict_text_authenticity(hf_response)
       IN  /\ prediction' = out.label
           /\ score' = out.score
           /\ raised' = out.exc
           /\ pc' = IF out.exc = "none" THEN "classified" ELSE "crashed"
    /\ called' = called \cup {"hf"}
    /\ UNCHANGED <<keys, user_input, hf_response, fc_response, fact_results, news_response,
                   news_results, sources, rendered, st_error, added>>

NextClassifier == RunClassifier

SpecClassifier == InitClassifier /\ [][NextClassifier]_vars

----------------------------------------------------------------------------
(* Vocabulary of the properties, stated on the recorded oracle answers and *)
(* on the lists themselves                                                 *)

(* the URL the documented template gives for text t *)
IsSearchUrl(u, t) ==
    /\ Len(u) = Len(t) + 1
    /\ u[1] = "https://news.google.com/search?q="
    /\ \A i \in 1..Len(t) : u[i + 1] = (IF t[i] = " " THEN "+" ELSE t[i])

IsPlaceholder(c) ==
    /\ c[1] = "Search on Google News"
    /\ IsSearchUrl(c[2], user_input)
    /\ c[3] = "Google News"

IsStandIn(c) ==
    /\ c[1] = "Google News Search"
    /\ IsSearchUrl(c[2], user_input)
    /\ c[3] = "Google News"

PlaceholderPresent == \E i \in DOMAIN rendered : rendered[i][1] = "Search on Google News"

(* the fact-check oracle answered a dict whose "claims" is a list *)
ClaimsAnswered ==
    /\ "fc" \in called
    /\ fact_results.t = "dict"
    /\ "claims" \in fact_results.keys
    /\ fact_results.claimsT = "list"

NumClaims == Len(fact_results.claims)

NumUsed == IF NumClaims < 3 THEN NumClaims ELSE 3

(* the news oracle answered, the answer decoded, and it holds no article *)
NoArticlesAnswered ==
    /\ "news" \in called
    /\ news_response.net = "ok"
    /\ news_response.parse = "ok"
    /\ LET b == news_response.body
       IN  \/ b.t = "dict" /\ "articles" \notin b.keys
           \/ b.t = "dict" /\ "articles" \in b.keys /\ b.articlesT = "list" /\ b.articles = <<>>
           \/ b.t = "list" /\ "articles" \notin b.elems

SomeKeyMissing == \E k \in KeyNames : keys[k].isNone \/ keys[k].str = <<>>

----------------------------------------------------------------------------
(* C1: the list handed to render_prediction has between 1 and 6 elements;  *)
(* when the fact-check and news steps appended nothing it is exactly the   *)
(* one placeholder citation ("Search on Google News", search URL, "Google  *)
(* News").                                                                 *)
C1_EvidenceSetBounded ==
    pc = "rendered" =>
        /\ Len(rendered) >= 1
        /\ Len(rendered) <= 6
        /\ rendered = sources
        /\ (added.fc + added.news = 0 =>
                /\ Len(rendered) = 1
                /\ IsPlaceholder(rendered[1])
                /\ added.placeholder = 1)

C1_Witness ==
    /\ pc = "rendered"
    /\ added.fc + added.news = 0
    /\ Len(rendered) = 1
    /\ user_input = <<"a", " ">>

(* C2: with N >= 1 claims answered, the rendered list starts with exactly  *)
(* min(N,3) fact-check citations, those of the first min(N,3) claims in    *)
(* order, everything after them comes from the news step; N = 2 and no     *)
(* article gives 2 fact-check citations and then the stand-in, 3 in all.   *)
C2_FactCheckFirst ==
    (pc = "rendered" /\ ClaimsAnswered /\ NumClaims >= 1) =>
        /\ added.fc = NumUsed
        /\ added.placeholder = 0
        /\ Len(rendered) = NumUsed + added.news
        /\ \A i \in 1..NumUsed :
             LET claim == fact_results.claims[i]
             IN  /\ rendered[i][1] = (IF "text" \in claim.keys THEN claim.text ELSE "N/A")
                 /\ claim.claimReview # <<>>
                 /\ rendered[i][2] = (IF "url" \in claim.claimReview[1].keys
                                      THEN claim.claimReview[1].url ELSE <<"#">>)
        /\ \A j \in (NumUsed + 1)..Len(rendered) :
             \A i \in 1..NumClaims :
                 fact_results.claims[i].claimReview # <<>> =>
                     rendered[j][2] # fact_results.claims[i].claimReview[1].url
        /\ (NumClaims = 2 /\ NoArticlesAnswered =>
                /\ Len(rendered) = 3
                /\ IsStandIn(rendered[3]))

C2_Witness ==
    /\ pc = "rendered"
    /\ ClaimsAnswered
    /\ NumClaims = 4
    /\ added.fc = 3
    /\ added.news = 3
    /\ rendered[3][1] = "claim3"
    /\ rendered[4][1] = "headline1"

(* C3: when the news oracle's answer holds no article and nothing raised,  *)
(* query_newsapi returns one pseudo-result and main appends one news       *)
(* citation whose URL is the search prefix followed by the text with every *)
(* space replaced by '+'; nothing comes from the article path.             *)
C3_StandInCitation ==
    NoArticlesAnswered =>
        /\ pc = "rendered"
        /\ news_results.keys = {"results"}
        /\ Len(news_results.results) = 1
        /\ added.news = 1
        /\ Len(rendered) = added.fc + 1
        /\ IsStandIn(rendered[added.fc + 1])

C3_Witness ==
    /\ NoArticlesAnswered
    /\ user_input = <<" ", "a">>
    /\ added.fc = 2
    /\ rendered[3][2] = <<"https://news.google.com/search?q=", "+", "a">>

(* C5: with any of the three keys None or empty, the run shows the error   *)
(* and stops: no oracle is requested, no list is built, nothing is         *)
(* rendered.                                                               *)
C5_MissingKeyStops ==
    SomeKeyMissing =>
        /\ pc \in {"idle", "stopped"}
        /\ (pc = "stopped" => st_error)
        /\ called = {}
        /\ sources = <<>>
        /\ rendered = <<>>
        /\ fc_response = NoFCResponse
        /\ news_response = NoNewsResponse

C5_Witness ==
    /\ pc = "stopped"
    /\ st_error
    /\ keys["HF_API_TOKEN"] = KeySecret
    /\ keys["GOOGLE_FACTCHECK_API_KEY"] = KeySecret
    /\ keys["NEWS_API_KEY"] = KeyEmpty

(* C6: a transport or decode failure of the fact-check oracle or of the    *)
(* news oracle raises nothing in main: the adapter's result contributes no *)
(* citation and the run goes on to render_prediction.                      *)
C6_AdapterFailuresAbsorbed ==
    /\ ("fc" \in called /\ (fc_response.net = "raise" \/ fc_response.parse = "raise")) =>
            /\ raised = "none"
            /\ pc # "crashed"
            /\ added.fc = 0
    /\ ("news" \in called /\ (news_response.net = "raise" \/ news_response.parse = "raise")) =>
            /\ raised = "none"
            /\ pc = "rendered"
            /\ added.news = 0

(* C8: each of the first three answered claims yields one citation with    *)
(* the defaults "N/A", "#", "Unknown" for missing fields, also when its    *)
(* "claimReview" is absent or empty, and the run completes the step.       *)
C8_MissingFieldsDefault ==
    (ClaimsAnswered /\ "news" \notin called) =>
        /\ pc = "news"
        /\ raised = "none"
        /\ Len(sources) = NumUsed
        /\ \A i \in 1..NumUsed :
             LET claim == fact_results.claims[i]
                 hasReview == "claimReview" \in claim.keys /\ claim.claimReview # <<>>
             IN  /\ sources[i][1] = (IF "text" \in claim.keys THEN claim.text ELSE "N/A")
                 /\ sources[i][2] = (IF hasReview /\ "url" \in claim.claimReview[1].keys
                                     THEN claim.claimReview[1].url ELSE <<"#">>)
                 /\ sources[i][3] = (IF /\ hasReview
                                        /\ "publisher" \in claim.claimReview[1].keys
                                        /\ "name" \in claim.claimReview[1].publisher.keys
                                     THEN claim.claimReview[1].publisher.name ELSE "Unknown")

(* C10: at render the placeholder is present exactly when the fact-check   *)
(* step appended nothing and query_newsapi returned neither a non-empty    *)
(* "articles" list nor "results"; a query_newsapi that returned without    *)
(* its error marker contributed a citation; a present placeholder is the   *)
(* only element of the list.                                               *)
C10_PlaceholderAlone ==
    pc = "rendered" =>
        /\ PlaceholderPresent <=>
             /\ added.fc = 0
             /\ ~("articles" \in news_results.keys /\ news_results.articles # <<>>)
             /\ "results" \notin news_results.keys
        /\ PlaceholderPresent <=> added.placeholder = 1
        /\ ("error" \notin news_results.keys => added.news >= 1)
        /\ (PlaceholderPresent =>
                /\ Len(rendered) = 1
                /\ IsPlaceholder(rendered[1])
                /\ added.fc = 0
                /\ added.news = 0
                /\ "error" \in news_results.keys)

C10_Witness ==
    /\ pc = "rendered"
    /\ PlaceholderPresent
    /\ news_response.parse = "raise"
    /\ fact_results.t = "dict"
    /\ "claims" \in fact_results.keys
    /\ fact_results.claims = <<>>

----------------------------------------------------------------------------
(* Properties of the classifier, on the recorded answer hf_response *)

Classified == pc \in {"classified", "crashed"}

(* status 200, a decoded dict without "error" that holds a top label and a top score *)
UsableAnswer ==
    /\ hf_response.net = "ok"
    /\ hf_response.status = 200
    /\ hf_response.parse = "ok"
    /\ hf_response.body.t = "dict"
    /\ "error" \notin hf_response.body.keys
    /\ "labels" \in hf_response.body.keys
    /\ hf_response.body.labels # <<>>
    /\ "scores" \in hf_response.body.keys
    /\ hf_response.body.scores # <<>>

TopLabel == hf_response.body.labels[1]

TopScore == hf_response.body.scores[1]

(* the three failures: non-success status, transport error, malformed payload *)
FailedAnswer ==
    \/ hf_response.net = "raise"
    \/ hf_response.net = "ok" /\ hf_response.status # 200
    \/ /\ hf_response.net = "ok"
       /\ hf_response.status = 200
       /\ \/ hf_response.parse = "raise"
          \/ hf_response.body.t # "dict"
          \/ "labels" \notin hf_response.body.keys
          \/ hf_response.body.labels = <<>>
          \/ "scores" \notin hf_response.body.keys
          \/ hf_response.body.scores = <<>>

(* C4: on a failed answer of the classification oracle the classifier      *)
(* returns ("fake", 0.0) and raises nothing.                               *)
C4_FailureGivesFakeZero ==
    (Classified /\ FailedAnswer) =>
        /\ raised = "none"
        /\ pc = "classified"
        /\ prediction = <<"f","a","k","e">>
        /\ score = 0

(* C7: on a usable answer whose top label is "real" or "fake" in any case, *)
(* the classifier returns that label in lower case and the top score       *)
(* unchanged, whatever the score is.                                       *)
C7_ExpectedLabelKept ==
    (Classified /\ UsableAnswer) =>
        /\ (TopLabel \in {<<"r","e","a","l">>, <<"R","E","A","L">>} =>
                /\ pc = "classified"
                /\ prediction = <<"r","e","a","l">>
                /\ score = TopScore)
        /\ (TopLabel \in {<<"f","a","k","e">>, <<"F","a","k","e">>} =>
                /\ pc = "classified"
                /\ prediction = <<"f","a","k","e">>
                /\ score = TopScore)

C7_Witness ==
    /\ pc = "classified"
    /\ UsableAnswer
    /\ TopLabel = <<"R","E","A","L">>
    /\ TopScore = 10
    /\ prediction = <<"r","e","a","l">>
    /\ score = 10

(* C9: on a usable answer whose top label is neither "real" nor "fake",    *)
(* the label is "real" when the top score is at least 0.5 and "fake" when  *)
(* it is below, the score is returned unchanged; every label the           *)
(* classifier returns is "real" or "fake".                                 *)
C9_ThresholdRelabel ==
    /\ (Classified /\ UsableAnswer
            /\ TopLabel \notin {<<"r","e","a","l">>, <<"R","E","A","L">>,
                                <<"f","a","k","e">>, <<"F","a","k","e">>}) =>
            /\ pc = "classified"
            /\ score = TopScore
            /\ prediction = (IF TopScore >= 50 THEN <<"r","e","a","l">> ELSE <<"f","a","k","e">>)
    /\ (pc = "classified" => prediction \in {<<"r","e","a","l">>, <<"f","a","k","e">>})

C9_Witness ==
    /\ pc = "classified"
    /\ UsableAnswer
    /\ TopLabel = <<"n","e","u","t","r","a","l">>
    /\ TopScore = 50
    /\ prediction = <<"r","e","a","l">>

====
